---- MODULE Spec2Model ----
(***************************************************************************)
(* GHOSTSTEIN Aviator backend v2.1: the in-memory ledger and the round     *)
(* life cycle (deposit, start, cash out, crash report, withdraw, cleanup). *)
(* Every express handler runs to completion on the single node.js thread,  *)
(* so each handler is one atomic action.                                   *)
(*                                                                         *)
(* Money is kept in hundredths of a token and multipliers in hundredths    *)
(* (1.25x is 125); Math.random() is a draw in 0 .. RandScale - 1, read as  *)
(* draw / RandScale; toFixed(2) is rounding half up to a hundredth.        *)
(* The response of a handler is a function of the state it finds and of    *)
(* its request: StartResult, CashOutResult, WithdrawResult, DepositResult. *)
(***************************************************************************)
EXTENDS Integers, Sequences, FiniteSets, TLC

\* ---------------------------------------------------------------- bounds
\* A handler reads and writes only the entries of the requesting user and of
\* the game it names, so one user plays and a second one sends cash-outs and
\* crash reports for games that are not theirs.
Users == {"u1", "u2"}
Players == {"u1"}
MaxGames == 2
MaxBurst == 2
MaxBalance == 3
Epoch == 2000

\* ------------------------------------------------------ program constants
RateWindowMs == 60000
MaxStartsPerMinute == 10
StaleAgeMs == 60000
CooldownMs == 1000
RetentionMs == 1800000
MinMultiplier == 100
MaxMultiplier == 2000
RandScale == 10000
Null == -1
NoGame == 0

\* ------------------------------------------------------------ input sets
\* The instants at which requests arrive, in ms after Epoch.
Offsets == {0, 1000, 60000, 60001, 1800001}
Instants == {Epoch + d : d \in Offsets}
Amounts == {0, 3, 20}
Multipliers == {0, 50, 125, 175}
RDraws == {0, 9999}
XDraws == {3571}
GameIds == 0 .. MaxGames

VARIABLES
  users,        \* Map userId -> account
  games,        \* Map gameId -> game
  activeGames,  \* Map userId -> gameId
  requestLog,   \* Map userId -> { count, resetAt }
  now,          \* Date.now()
  nextId,       \* the next game identifier to be issued
  credits,      \* per game: how many times its owner's balance was credited
  settles,      \* per game: the responses of the cash-outs that passed the
                \* checks and locked it, in order
  untouched     \* per user: the game started last, while the user has sent
                \* no cash-out or crash report since and it is not cleaned up

vars == <<users, games, activeGames, requestLog, now, nextId,
          credits, settles, untouched>>

\* --------------------------------------------------------------- helpers
Put(f, k, v) == [x \in DOMAIN f \cup {k} |-> IF x = k THEN v ELSE f[x]]

Del(f, k) == [x \in DOMAIN f \ {k} |-> f[x]]

EmptyMap == [x \in {} |-> 0]

\* Number.prototype.toFixed(2) of n / d, in hundredths.
ToFixed2(n, d) == (2 * n + d) \div (2 * d)

NewUser ==
  [balance |-> 0, gamesPlayed |-> 0, totalWon |-> 0, totalWagered |-> 0,
   lastGameAt |-> 0]

getUser(us, userId) ==
  IF userId \in DOMAIN us THEN us ELSE Put(us, userId, NewUser)

\* A blocked request starts the window again.
isRateLimitedExtending(log, userId, maxPerMinute, t) ==
  IF userId \notin DOMAIN log \/ t > log[userId].resetAt
  THEN [blocked |-> FALSE,
        log |-> Put(log, userId, [count |-> 1, resetAt |-> t + RateWindowMs])]
  ELSE IF log[userId].count >= maxPerMinute
  THEN [blocked |-> TRUE,
        log |-> [log EXCEPT ![userId].resetAt = t + RateWindowMs]]
  ELSE [blocked |-> FALSE, log |-> [log EXCEPT ![userId].count = @ + 1]]

\* The limit tested with > instead of >=.
isRateLimitedOffByOne(log, userId, maxPerMinute, t) ==
  IF userId \notin DOMAIN log \/ t > log[userId].resetAt
  THEN [blocked |-> FALSE,
        log |-> Put(log, userId, [count |-> 1, resetAt |-> t + RateWindowMs])]
  ELSE IF log[userId].count > maxPerMinute
  THEN [blocked |-> TRUE, log |-> log]
  ELSE [blocked |-> FALSE, log |-> [log EXCEPT ![userId].count = @ + 1]]

isRateLimited(log, userId, maxPerMinute, t) ==
  IF userId \notin DOMAIN log \/ t > log[userId].resetAt
  THEN [blocked |-> FALSE,
        log |-> Put(log, userId, [count |-> 1, resetAt |-> t + RateWindowMs])]
  ELSE IF log[userId].count >= maxPerMinute
  THEN [blocked |-> TRUE, log |-> log]
  ELSE [blocked |-> FALSE, log |-> [log EXCEPT ![userId].count = @ + 1]]

\* base + random * span / 100, to two decimals; base in hundredths.
Tier(base, span, x) == ToFixed2(base * RandScale + x * span, RandScale)

generateCrashPoint(r, x) ==
  IF r * 100 < 35 * RandScale THEN Tier(100, 70, x)
  ELSE IF r * 100 < 60 * RandScale THEN Tier(170, 80, x)
  ELSE IF r * 100 < 80 * RandScale THEN Tier(250, 250, x)
  ELSE IF r * 100 < 93 * RandScale THEN Tier(500, 500, x)
  ELSE Tier(1000, 1000, x)

Init ==
  /\ users = EmptyMap
  /\ games = EmptyMap
  /\ activeGames = EmptyMap
  /\ requestLog = EmptyMap
  /\ now = Epoch
  /\ nextId = 1
  /\ credits = [g \in 1 .. MaxGames |-> 0]
  /\ settles = [g \in 1 .. MaxGames |-> <<>>]
  /\ untouched = [u \in Users |-> NoGame]

\* ----------------------------------------------------------------- clock
Tick(t) ==
  /\ t > now
  /\ now' = t
  /\ UNCHANGED <<users, games, activeGames, requestLog, nextId, credits,
                 settles, untouched>>

\* --------------------------------------------------------------- deposit
DepositResult(userId, amount) ==
  IF amount <= 0 THEN "InvalidRequest" ELSE "ok"

Deposit(userId, amount) ==
  LET us == getUser(users, userId) IN
  /\ DepositResult(userId, amount) = "ok" =>
       us[userId].balance + amount <= MaxBalance
  /\ users' = IF DepositResult(userId, amount) = "ok"
              THEN [us EXCEPT ![userId].balance = @ + amount]
              ELSE users
  /\ UNCHANGED <<games, activeGames, requestLog, now, nextId, credits,
                 settles, untouched>>

\* ------------------------------------------------------------ start game
\* The threshold written in seconds.
IsStaleSeconds(age) == age > 60

\* No auto-clear of stuck games, as before v2.1.
IsStaleNever(age) == FALSE

IsStale(age) == age > StaleAgeMs

\* The cooldown written in seconds.
InCooldownSeconds(t, lastGameAt) == t - lastGameAt < 1

InCooldown(t, lastGameAt) == t - lastGameAt < CooldownMs

\* The comparison the wrong way round.
CannotAffordReversed(amount, balance) == amount < balance

CannotAfford(amount, balance) == amount > balance

NewGame(userId, bet, crashPoint, t) ==
  [userId |-> userId, betAmount |-> bet, crashPoint |-> crashPoint,
   status |-> "active", startedAt |-> t, cashedOut |-> FALSE,
   cashoutMultiplier |-> Null]

\* The refund of the stale game also taken off the wager total.
ClearStuckUnwager(us, userId) ==
  IF userId \notin DOMAIN activeGames
  THEN [blocked |-> FALSE, cleared |-> NoGame, users |-> us, games |-> games,
        activeGames |-> activeGames]
  ELSE LET id == activeGames[userId] IN
       IF id \in DOMAIN games /\ games[id].status = "active"
       THEN IF IsStale(now - games[id].startedAt)
            THEN [blocked |-> FALSE, cleared |-> id,
                  users |-> [us EXCEPT ![userId] =
                     [@ EXCEPT !.balance = @ + games[id].betAmount,
                               !.totalWagered = @ - games[id].betAmount]],
                  games |-> [games EXCEPT ![id].status = "crashed"],
                  activeGames |-> Del(activeGames, userId)]
            ELSE [blocked |-> TRUE, cleared |-> NoGame, users |-> us,
                  games |-> games, activeGames |-> activeGames]
       ELSE [blocked |-> FALSE, cleared |-> NoGame, users |-> us,
             games |-> games, activeGames |-> Del(activeGames, userId)]

\* The stale game refunded and taken off the index but left active.
ClearStuckKeepsStatus(us, userId) ==
  IF userId \notin DOMAIN activeGames
  THEN [blocked |-> FALSE, cleared |-> NoGame, users |-> us, games |-> games,
        activeGames |-> activeGames]
  ELSE LET id == activeGames[userId] IN
       IF id \in DOMAIN games /\ games[id].status = "active"
       THEN IF IsStale(now - games[id].startedAt)
            THEN [blocked |-> FALSE, cleared |-> id,
                  users |-> [us EXCEPT ![userId].balance =
                                         @ + games[id].betAmount],
                  games |-> games,
                  activeGames |-> Del(activeGames, userId)]
            ELSE [blocked |-> TRUE, cleared |-> NoGame, users |-> us,
                  games |-> games, activeGames |-> activeGames]
       ELSE [blocked |-> FALSE, cleared |-> NoGame, users |-> us,
             games |-> games, activeGames |-> Del(activeGames, userId)]

\* The stale game cleared without its refund.
ClearStuckNoRefund(us, userId) ==
  IF userId \notin DOMAIN activeGames
  THEN [blocked |-> FALSE, cleared |-> NoGame, users |-> us, games |-> games,
        activeGames |-> activeGames]
  ELSE LET id == activeGames[userId] IN
       IF id \in DOMAIN games /\ games[id].status = "active"
       THEN IF IsStale(now - games[id].startedAt)
            THEN [blocked |-> FALSE, cleared |-> NoGame, users |-> us,
                  games |-> [games EXCEPT ![id].status = "crashed"],
                  activeGames |-> Del(activeGames, userId)]
            ELSE [blocked |-> TRUE, cleared |-> NoGame, users |-> us,
                  games |-> games, activeGames |-> activeGames]
       ELSE [blocked |-> FALSE, cleared |-> NoGame, users |-> us,
             games |-> games, activeGames |-> Del(activeGames, userId)]

\* The "stuck active game" block: what it leaves of users, games and
\* activeGames, the game it refunded, and whether it answered
\* "You already have an active game".
ClearStuck(us, userId) ==
  IF userId \notin DOMAIN activeGames
  THEN [blocked |-> FALSE, cleared |-> NoGame, users |-> us, games |-> games,
        activeGames |-> activeGames]
  ELSE LET id == activeGames[userId] IN
       IF id \in DOMAIN games /\ games[id].status = "active"
       THEN IF IsStale(now - games[id].startedAt)
            THEN [blocked |-> FALSE, cleared |-> id,
                  users |-> [us EXCEPT ![userId].balance =
                                         @ + games[id].betAmount],
                  games |-> [games EXCEPT ![id].status = "crashed"],
                  activeGames |-> Del(activeGames, userId)]
            ELSE [blocked |-> TRUE, cleared |-> NoGame, users |-> us,
                  games |-> games, activeGames |-> activeGames]
       ELSE [blocked |-> FALSE, cleared |-> NoGame, users |-> us,
             games |-> games, activeGames |-> Del(activeGames, userId)]

StartResult(userId, betAmount) ==
  LET cs == ClearStuck(getUser(users, userId), userId) IN
  IF betAmount <= 0 THEN "InvalidRequest"
  ELSE IF isRateLimited(requestLog, userId, MaxStartsPerMinute, now).blocked
  THEN "RateLimited"
  ELSE IF cs.blocked THEN "ActiveRoundExists"
  ELSE IF InCooldown(now, cs.users[userId].lastGameAt) THEN "CooldownActive"
  ELSE IF CannotAfford(betAmount, cs.users[userId].balance)
  THEN "InsufficientBalance"
  ELSE "ok"

\* The body of the response to a start request.
StartResponse(userId, betAmount, r, x) ==
  LET cs == ClearStuck(getUser(users, userId), userId)
      result == StartResult(userId, betAmount)
  IN IF result = "ok"
     THEN [success |-> TRUE, gameId |-> nextId,
           crashPoint |-> generateCrashPoint(r, x),
           balance |-> cs.users[userId].balance - betAmount]
     ELSE [success |-> FALSE, error |-> result]

StartRound(userId, betAmount, r, x) ==
  LET rl == isRateLimited(requestLog, userId, MaxStartsPerMinute, now)
      cs == ClearStuck(getUser(users, userId), userId)
      result == StartResult(userId, betAmount)
  IN
  /\ result = "ok" => nextId <= MaxGames
  /\ requestLog' = IF result = "InvalidRequest" THEN requestLog ELSE rl.log
  /\ IF result \in {"InvalidRequest", "RateLimited"}
     THEN UNCHANGED <<users, games, activeGames, nextId, credits, untouched>>
     ELSE /\ credits' = IF cs.cleared = NoGame THEN credits
                        ELSE [credits EXCEPT ![cs.cleared] = @ + 1]
          /\ IF result = "ok"
             THEN /\ users' = [cs.users EXCEPT ![userId] =
                       [@ EXCEPT !.balance = @ - betAmount,
                                 !.totalWagered = @ + betAmount,
                                 !.gamesPlayed = @ + 1,
                                 !.lastGameAt = now]]
                  /\ games' = Put(cs.games, nextId,
                       NewGame(userId, betAmount, generateCrashPoint(r, x),
                               now))
                  /\ activeGames' = Put(cs.activeGames, userId, nextId)
                  /\ nextId' = nextId + 1
                  /\ untouched' = [untouched EXCEPT ![userId] = nextId]
             ELSE /\ users' = cs.users
                  /\ games' = cs.games
                  /\ activeGames' = cs.activeGames
                  /\ UNCHANGED <<nextId, untouched>>
  /\ UNCHANGED <<now, settles>>

\* -------------------------------------------------------------- cash out
\* The comparison the wrong way round.
CrashedReversed(cashMult, crashPoint) == cashMult < crashPoint

Crashed(cashMult, crashPoint) == cashMult > crashPoint

BadMultiplier(cashMult) == cashMult < MinMultiplier \/ cashMult > MaxMultiplier

\* The product cut to two decimals instead of rounded.
WinAmountTruncated(betAmount, cashMult) == (betAmount * cashMult) \div 100

WinAmount(betAmount, cashMult) == ToFixed2(betAmount * cashMult, 100)

\* Only the first two checks: the game exists and is the user's.
CashOutGuardOwnerOnly(userId, gameId) ==
  IF gameId \notin DOMAIN games THEN "NotFound"
  ELSE IF games[gameId].userId # userId THEN "Forbidden"
  ELSE "pass"

\* The four checks before the lock.
CashOutGuard(userId, gameId) ==
  IF gameId \notin DOMAIN games THEN "NotFound"
  ELSE IF games[gameId].userId # userId THEN "Forbidden"
  ELSE IF games[gameId].status # "active" THEN "AlreadyEnded"
  ELSE IF games[gameId].cashedOut THEN "AlreadySettled"
  ELSE "pass"

\* The lock that sets the flag and leaves the status.
LockFlagOnly(game) == [game EXCEPT !.cashedOut = TRUE]

\* "Lock immediately"
Lock(game) == [game EXCEPT !.cashedOut = TRUE, !.status = "completed"]

CashOutResult(userId, gameId, multiplier) ==
  IF multiplier = 0 THEN "InvalidRequest"
  ELSE IF CashOutGuard(userId, gameId) # "pass"
  THEN CashOutGuard(userId, gameId)
  ELSE IF Crashed(multiplier, games[gameId].crashPoint) THEN "Crashed"
  ELSE IF BadMultiplier(multiplier) THEN "InvalidMultiplier"
  ELSE "Paid"

Settling == {"Crashed", "InvalidMultiplier", "Paid"}

CashOut(userId, gameId, multiplier) ==
  LET result == CashOutResult(userId, gameId, multiplier)
      winAmount == WinAmount(games[gameId].betAmount, multiplier)
  IN
  /\ IF result \in Settling
     THEN /\ activeGames' = Del(activeGames, userId)
          /\ settles' = [settles EXCEPT ![gameId] = Append(@, result)]
          /\ IF result = "Paid"
             THEN /\ users' = [getUser(users, userId) EXCEPT ![userId] =
                         [@ EXCEPT !.balance = @ + winAmount,
                                   !.totalWon = @ + winAmount]]
                  /\ games' = [games EXCEPT ![gameId] =
                         [Lock(@) EXCEPT !.cashoutMultiplier = multiplier]]
                  /\ credits' = [credits EXCEPT ![gameId] = @ + 1]
             ELSE /\ games' = [games EXCEPT ![gameId] = Lock(@)]
                  /\ UNCHANGED <<users, credits>>
     ELSE UNCHANGED <<users, games, activeGames, credits, settles>>
  /\ untouched' = IF result = "InvalidRequest" THEN untouched
                  ELSE [untouched EXCEPT ![userId] = NoGame]
  /\ UNCHANGED <<requestLog, now, nextId>>

\* ---------------------------------------------------------- crash report
\* The identifiers of a request are non-empty, so the answer is always
\* { success: true }.
ReportCrashResult(userId, gameId) == "ok"

\* The index entry deleted only together with the game's own transition.
ReportCrashOwnGameOnly(userId, gameId) ==
  /\ IF /\ gameId \in DOMAIN games
        /\ games[gameId].userId = userId
        /\ games[gameId].status = "active"
     THEN /\ games' = [games EXCEPT ![gameId] =
                         [@ EXCEPT !.status = "crashed", !.cashedOut = FALSE]]
          /\ activeGames' = Del(activeGames, userId)
     ELSE UNCHANGED <<games, activeGames>>
  /\ untouched' = [untouched EXCEPT ![userId] = NoGame]
  /\ UNCHANGED <<users, requestLog, now, nextId, credits, settles>>

\* The crash report that also gives the stake back.
ReportCrashRefunding(userId, gameId) ==
  /\ IF /\ gameId \in DOMAIN games
        /\ games[gameId].userId = userId
        /\ games[gameId].status = "active"
     THEN /\ games' = [games EXCEPT ![gameId] =
                         [@ EXCEPT !.status = "crashed", !.cashedOut = FALSE]]
          /\ users' = [getUser(users, userId) EXCEPT ![userId].balance =
                         @ + games[gameId].betAmount]
     ELSE UNCHANGED <<games, users>>
  /\ activeGames' = Del(activeGames, userId)
  /\ untouched' = [untouched EXCEPT ![userId] = NoGame]
  /\ UNCHANGED <<requestLog, now, nextId, credits, settles>>

\* The registry a crash report of userId for gameId makes of gs.
CrashedGames(gs, userId, gameId) ==
  IF /\ gameId \in DOMAIN gs
     /\ gs[gameId].userId = userId
     /\ gs[gameId].status = "active"
  THEN [gs EXCEPT ![gameId] =
          [@ EXCEPT !.status = "crashed", !.cashedOut = FALSE]]
  ELSE gs

ReportCrash(userId, gameId) ==
  /\ UNCHANGED <<users, requestLog, now, nextId, credits, settles>>
  /\ activeGames' = Del(activeGames, userId)
  /\ games' = CrashedGames(games, userId, gameId)
  /\ untouched' = [untouched EXCEPT ![userId] = NoGame]

\* -------------------------------------------------------------- withdraw
\* The active-game check left out.
WithdrawResultAnyTime(userId, amount) ==
  IF amount <= 0 THEN "InvalidRequest"
  ELSE IF CannotAfford(amount, getUser(users, userId)[userId].balance)
  THEN "InsufficientBalance"
  ELSE "ok"

WithdrawResult(userId, amount) ==
  IF amount <= 0 THEN "InvalidRequest"
  ELSE IF CannotAfford(amount, getUser(users, userId)[userId].balance)
  THEN "InsufficientBalance"
  ELSE IF userId \in DOMAIN activeGames THEN "ActiveRoundExists"
  ELSE "ok"

Withdraw(userId, amount) ==
  LET us == getUser(users, userId)
      result == WithdrawResult(userId, amount)
  IN
  /\ users' = IF result = "InvalidRequest" THEN users
              ELSE IF result = "ok"
              THEN [us EXCEPT ![userId].balance = @ - amount]
              ELSE us
  /\ UNCHANGED <<games, activeGames, requestLog, now, nextId, credits,
                 settles, untouched>>

\* --------------------------------------------------------------- cleanup
\* A sweep that finds no game old enough.
ExpiredNever(game) == FALSE

Expired(game) == now - game.startedAt > RetentionMs

\* The index still points to the game.
Indexed(id) ==
  /\ games[id].userId \in DOMAIN activeGames
  /\ activeGames[games[id].userId] = id

\* A game the sweep refunds.
Refunded(id) == Expired(games[id]) /\ Indexed(id) /\ games[id].status = "active"

Cleanup ==
  LET old == {id \in DOMAIN games : Expired(games[id])}
      touched == {games[id].userId : id \in {i \in old : Indexed(i)}}
      us == [u \in DOMAIN users \cup touched |->
               IF u \in DOMAIN users THEN users[u] ELSE NewUser]
  IN
  /\ games' = [id \in DOMAIN games \ old |-> games[id]]
  /\ users' = [u \in DOMAIN us |->
       IF \E id \in old : Refunded(id) /\ games[id].userId = u
       THEN LET id == CHOOSE i \in old : Refunded(i) /\ games[i].userId = u
            IN [us[u] EXCEPT !.balance = @ + games[id].betAmount]
       ELSE us[u]]
  /\ activeGames' = [u \in DOMAIN activeGames \ touched |-> activeGames[u]]
  /\ requestLog' = [u \in {v \in DOMAIN requestLog :
                             ~(now > requestLog[v].resetAt)} |-> requestLog[u]]
  /\ credits' = [g \in DOMAIN credits |->
       IF g \in old /\ Refunded(g) THEN credits[g] + 1 ELSE credits[g]]
  /\ untouched' = [u \in Users |->
       IF untouched[u] \in old THEN NoGame ELSE untouched[u]]
  /\ UNCHANGED <<now, nextId, settles>>

\* ------------------------------------------------------------------ next
\* The user has sent fewer than MaxBurst start requests in the open window.
Calm(u) ==
  IF u \in DOMAIN requestLog
  THEN now > requestLog[u].resetAt \/ requestLog[u].count < MaxBurst
  ELSE TRUE

CalmStart(u, a, r, x) == Calm(u) /\ StartRound(u, a, r, x)

Next ==
  \/ \E t \in Instants : Tick(t)
  \/ \E u \in Players, a \in Amounts : Deposit(u, a)
  \/ \E u \in Players, a \in Amounts, r \in RDraws, x \in XDraws :
       CalmStart(u, a, r, x)
  \/ \E u \in Users, g \in GameIds, m \in Multipliers : CashOut(u, g, m)
  \/ \E u \in Users, g \in GameIds : ReportCrash(u, g)
  \/ \E u \in Players, a \in Amounts : Withdraw(u, a)
  \/ Cleanup

Spec == Init /\ [][Next]_vars

\* The same handlers with no bound on the start requests of a window, so
\* that the rate limiter fills up; one crash point, one cash-out multiplier
\* and four instants keep the state space small.
NextRate ==
  \/ \E t \in {Epoch + 1000, Epoch + 60000, Epoch + 60001} : Tick(t)
  \/ \E u \in Players, a \in Amounts : Deposit(u, a)
  \/ \E u \in Players, a \in Amounts : StartRound(u, a, 0, 3571)
  \/ \E u \in Users, g \in GameIds : CashOut(u, g, 175)
  \/ \E u \in Users, g \in GameIds : ReportCrash(u, g)
  \/ \E u \in Players, a \in Amounts : Withdraw(u, a)
  \/ Cleanup

SpecRate == Init /\ [][NextRate]_vars

\* The handlers with time that keeps advancing and a sweep that keeps
\* running (the wall clock, and setInterval firing every ten minutes).  The
\* clock of the model ends at Horizon, so games are started only while
\* their retention time ends before it.
LiveOffsets == {0, 1000, 60001, 1860002}

Horizon == Epoch + 1860002

LiveStart(u, a, r, x) ==
  /\ now + RetentionMs < Horizon
  /\ Calm(u)
  /\ StartRound(u, a, r, x)

AdvanceTime == \E d \in LiveOffsets : Tick(Epoch + d)

NextLive ==
  \/ AdvanceTime
  \/ \E u \in Players, a \in Amounts : Deposit(u, a)
  \/ \E u \in Players, a \in Amounts, r \in RDraws, x \in XDraws :
       LiveStart(u, a, r, x)
  \/ \E u \in Users, g \in GameIds, m \in Multipliers : CashOut(u, g, m)
  \/ \E u \in Users, g \in GameIds : ReportCrash(u, g)
  \/ \E u \in Players, a \in Amounts : Withdraw(u, a)
  \/ Cleanup

SpecLive ==
  Init /\ [][NextLive]_vars /\ WF_vars(AdvanceTime) /\ WF_vars(Cleanup)

\* The start handler over a grid of random draws: the ends of every tier of
\* generateCrashPoint and the ends of the draw inside a tier.
GridR == {0, 3499, 3500, 5999, 6000, 7999, 8000, 9299, 9300, 9999}

GridX == {0, 5000, 9999}

NextGen ==
  \/ \E t \in {Epoch + 1000, Epoch + 60001} : Tick(t)
  \/ \E u \in Players, a \in Amounts : Deposit(u, a)
  \/ \E u \in Players, a \in Amounts, r \in GridR, x \in GridX :
       CalmStart(u, a, r, x)
  \/ \E u \in Players, g \in GameIds : ReportCrash(u, g)

SpecGen == Init /\ [][NextGen]_vars

\* ================================================================ claims
ActiveGamesOf(u) ==
  {g \in DOMAIN games : games[g].userId = u /\ games[g].status = "active"}

\* The game exists, is u's and is active.
OwnActive(u, g) ==
  /\ g \in DOMAIN games
  /\ games[g].userId = u
  /\ games[g].status = "active"

\* A step of CashOut(u, g, m) that passes the checks: it adds to settles[g],
\* and testing that first spares evaluating the handler on every other step.
CashOutStep(u, g, m) == settles'[g] # settles[g] /\ CashOut(u, g, m)

\* A step of StartRound(u, a, ..) that reaches the rate limiter and is let
\* through: it writes requestLog[u].
StartStep(u, a) ==
  /\ u \in DOMAIN requestLog'
  /\ (u \in DOMAIN requestLog => requestLog'[u] # requestLog[u])
  /\ \E r \in RDraws, x \in XDraws : StartRound(u, a, r, x)

ValidAmounts == {a \in Amounts : a > 0}

ValidMultipliers == {m \in Multipliers : m # 0}

\* C1: every user owns at most one game whose status is active.
C1_AtMostOneActive == \A u \in Users : Cardinality(ActiveGamesOf(u)) <= 1

\* C2: every account's balance is at least 0 in every reachable state.
C2_BalanceNonNegative == \A u \in DOMAIN users : users[u].balance >= 0

\* C2 witness: a start has taken the whole balance of an account.
C2_Witness ==
  \E u \in DOMAIN users : users[u].balance = 0 /\ users[u].totalWagered > 0

\* C3: of the owner's cash-outs on one game, the one that finds it active
\* passes the checks and locks it; once that has happened every other one is
\* answered AlreadyEnded or AlreadySettled; at most one cash-out locks a game
\* and its owner is credited at most once for it.
C3_OneCashOutSettles ==
  \A g \in DOMAIN games :
    /\ Len(settles[g]) <= 1
    /\ credits[g] <= 1
    /\ games[g].status = "active" =>
         \A m \in ValidMultipliers :
           CashOutResult(games[g].userId, g, m) \in Settling
    /\ Len(settles[g]) = 1 =>
         \A m \in ValidMultipliers :
           CashOutResult(games[g].userId, g, m)
             \in {"AlreadyEnded", "AlreadySettled"}

\* C3 witness: a cash-out has been paid on a game that is still in the
\* registry, where a second cash-out finds it.
C3_Witness ==
  \E g \in DOMAIN games : settles[g] = <<"Paid">> /\ credits[g] = 1

\* C4: a cash-out by the owner on an active game with a multiplier above
\* the crash point leaves the game with status crashed.
C4_LateCashOutCrashes ==
  [][settles' # settles =>
     \A u \in Users, g \in GameIds, m \in Multipliers :
       (OwnActive(u, g) /\ m > games[g].crashPoint /\ CashOutStep(u, g, m))
         => games'[g].status = "crashed"]_vars

\* C5: a cash-out by the owner on an active game with a multiplier above
\* the crash point is answered with the crash result and changes no account:
\* no balance, no totalWon, no credit.
C5_LateCashOutPaysNothing ==
  [][settles' # settles =>
     \A u \in Users, g \in GameIds, m \in Multipliers :
       (OwnActive(u, g) /\ m > games[g].crashPoint /\ CashOutStep(u, g, m))
         => /\ CashOutResult(u, g, m) = "Crashed"
            /\ users' = users
            /\ credits' = credits]_vars

\* C5 witness: a game locked by a cash-out that came too late.
C5_Witness ==
  \E g \in DOMAIN games : settles[g] = <<"Crashed">> /\ credits[g] = 0

\* stake * multiplier to two decimals, half a hundredth rounding up.
Payout(stake, m) == (stake * m + 50) \div 100

\* What a paying cash-out of game g by u at multiplier m leaves.
PaidExactly(u, g, m) ==
  /\ CashOutResult(u, g, m) = "Paid"
  /\ users'[u].balance = users[u].balance + Payout(games[g].betAmount, m)
  /\ users'[u].totalWon = users[u].totalWon + Payout(games[g].betAmount, m)
  /\ games'[g].status = "completed"

\* C6 as claimed: every cash-out by the owner on an active, unsettled game
\* with a multiplier at or below the crash point pays stake * multiplier to
\* two decimals and completes the game.
C6_PaysAtOrBelowCrashPoint ==
  [][settles' # settles =>
     \A u \in Users, g \in GameIds, m \in Multipliers :
       (/\ OwnActive(u, g)
        /\ ~games[g].cashedOut
        /\ m <= games[g].crashPoint
        /\ CashOutStep(u, g, m))
         => PaidExactly(u, g, m)]_vars

\* C6 amended: every cash-out by the owner on an active, unsettled game with
\* a multiplier of at least 1.00 and at or below the crash point pays
\* stake * multiplier to two decimals (balance and totalWon each grow by it)
\* and completes the game.
C6_PaysFromOneToCrashPoint ==
  [][settles' # settles =>
     \A u \in Users, g \in GameIds, m \in Multipliers :
       (/\ OwnActive(u, g)
        /\ ~games[g].cashedOut
        /\ m >= MinMultiplier
        /\ m <= games[g].crashPoint
        /\ CashOutStep(u, g, m))
         => PaidExactly(u, g, m)]_vars

\* C6 witness: a cash-out has been paid, at a multiplier whose payout is not
\* a whole number of hundredths before rounding.
C6_Witness ==
  \E g \in DOMAIN games :
    /\ settles[g] = <<"Paid">>
    /\ credits[g] = 1
    /\ (games[g].betAmount * games[g].cashoutMultiplier) % 100 # 0

\* C7: whenever a game leaves the registry while its status is active, its
\* stake is credited back to its owner in that step.
C7_ActiveRemovedOnlyRefunded ==
  [][\A g \in DOMAIN games :
       (g \notin DOMAIN games' /\ games[g].status = "active")
         => /\ credits'[g] = credits[g] + 1
            /\ users'[games[g].userId].balance
                 >= users[games[g].userId].balance + games[g].betAmount]_vars

\* The game u started last is active, no more than 60 s old, not cleaned up,
\* and u has sent no cash-out and no crash report since starting it.
Fresh(u) ==
  /\ untouched[u] # NoGame
  /\ now - games[untouched[u]].startedAt <= 60000

NoSecondRound ==
  [][\A u \in Users, a \in ValidAmounts :
       (Fresh(u) /\ StartStep(u, a))
         => /\ games' = games
            /\ activeGames' = activeGames
            /\ nextId' = nextId
            /\ users' = users]_vars

StaleIndexed(u) ==
  /\ u \in DOMAIN activeGames
  /\ OwnActive(u, activeGames[u])
  /\ now - games[activeGames[u]].startedAt > 60000

\* A start request of u with stake a finds a stale game, is not stopped by
\* the rate limiter and asks no more than the balance after the refund.
StaleStartable(u, a) ==
  /\ StaleIndexed(u)
  /\ ~isRateLimited(requestLog, u, MaxStartsPerMinute, now).blocked
  /\ a <= users[u].balance + games[activeGames[u]].betAmount

\* C9: a start request that finds the user's indexed game active and more
\* than 60 s old, is not rate limited and asks no more than the balance after
\* the refund succeeds; the stale game becomes crashed, its stake is credited
\* once, and the index points to the new, active game.
C9_StaleRoundRefundedAndReplaced ==
  /\ [](\A u \in Users, a \in ValidAmounts :
          StaleStartable(u, a) => StartResult(u, a) = "ok")
  /\ [](\A g \in DOMAIN credits : credits[g] <= 1)
  /\ [][\A u \in Users, a \in ValidAmounts :
          (StaleStartable(u, a) /\ StartStep(u, a)) =>
            LET g == activeGames[u] IN
            /\ games'[g].status = "crashed"
            /\ credits'[g] = credits[g] + 1
            /\ users'[u].balance =
                 users[u].balance + games[g].betAmount - a
            /\ activeGames'[u] = nextId
            /\ nextId \in DOMAIN games'
            /\ games'[nextId].userId = u
            /\ games'[nextId].status = "active"]_vars

\* C9 witness: a game that was refunded as stale and is crashed, and a
\* later game of the same user, started more than 60 s after it, in the index.
C9_Witness ==
  \E u \in DOMAIN activeGames, g \in DOMAIN games :
    /\ games[g].userId = u
    /\ games[g].status = "crashed"
    /\ credits[g] = 1
    /\ settles[g] = <<>>
    /\ activeGames[u] # g
    /\ OwnActive(u, activeGames[u])
    /\ games[activeGames[u]].startedAt > games[g].startedAt + 60000

\* C10: the stored count of a window never exceeds 10, and once 10 start
\* requests have passed the rate limiter every further one with a valid
\* stake, up to the reset time of the window, is answered RateLimited.
C10_AtMostTenPerWindow ==
  \A u \in DOMAIN requestLog :
    /\ requestLog[u].count <= 10
    /\ (requestLog[u].count >= 10 /\ now <= requestLog[u].resetAt) =>
         \A a \in ValidAmounts : StartResult(u, a) = "RateLimited"

\* C10 witness: ten start requests have passed the rate limiter in one
\* window, which is still open.
C10_Witness ==
  \E u \in DOMAIN requestLog :
    requestLog[u].count = 10 /\ now <= requestLog[u].resetAt

\* C11: a withdrawal by a user who has an entry in the index fails for every
\* amount and changes nothing: not the balance, not any other store (the
\* account exists already, so none is created either).
C11_WithdrawBlockedWhileIndexed ==
  /\ [](\A u \in DOMAIN activeGames, a \in Amounts :
          u \in DOMAIN users /\ WithdrawResult(u, a) # "ok")
  /\ [][users' # users =>
          \A u \in Users, a \in Amounts :
            ~(u \in DOMAIN activeGames /\ Withdraw(u, a))]_vars

\* C11 witness: an indexed user whose balance covers a withdrawal, which
\* only the active-game check refuses.
C11_Witness ==
  \E u \in DOMAIN activeGames, a \in Amounts :
    /\ a > 0
    /\ users[u].balance >= a
    /\ WithdrawResult(u, a) = "ActiveRoundExists"

\* C12: a crash report is answered with success whatever game it names;
\* right after it the index has no entry for the user (no step that leaves
\* a user in the index is a crash report of that user), and a user without
\* an index entry is never answered ActiveRoundExists by a start request.
C12_ReportCrashFreesUser ==
  /\ [](\A u \in Users, g \in GameIds : ReportCrashResult(u, g) = "ok")
  /\ [](\A u \in Users, a \in Amounts :
          u \notin DOMAIN activeGames =>
            StartResult(u, a) # "ActiveRoundExists")
  /\ [][\A u \in DOMAIN activeGames', g \in GameIds : ~ReportCrash(u, g)]_vars

\* C12 witness: a crash report that named another game has removed the
\* index entry of a user whose game is still active.
C12_Witness ==
  \E g \in DOMAIN games :
    /\ games[g].status = "active"
    /\ now - games[g].startedAt <= 60000
    /\ games[g].userId \notin DOMAIN activeGames
    /\ \E a \in Amounts : StartResult(games[g].userId, a) = "ok"

\* The index holds the entry u -> g.
IndexEntry(u, g) == u \in DOMAIN activeGames /\ activeGames[u] = g

\* C13: with time advancing and the sweep running, every index entry is
\* eventually removed, whatever the client does or fails to do, and every
\* user is again and again in a state where no start request is answered
\* ActiveRoundExists.
C13_NoUserLockedOutForever ==
  /\ \A u \in Users, g \in 1 .. MaxGames :
       IndexEntry(u, g) ~> ~IndexEntry(u, g)
  /\ \A u \in Users :
       []<>(\A a \in Amounts : StartResult(u, a) # "ActiveRoundExists")

\* C13 witness: a game on which no cash-out passed and that no crash report
\* ended was refunded, has left the registry, and its owner has no index
\* entry.
C13_Witness ==
  \E g \in 1 .. MaxGames :
    /\ g < nextId
    /\ g \notin DOMAIN games
    /\ credits[g] = 1
    /\ settles[g] = <<>>
    /\ activeGames = EmptyMap

\* C14: the response to a start request is the same whatever crash point
\* is drawn for the new game.
C14_StartResponseHidesCrashPoint ==
  \A u \in Users, a \in Amounts :
    \A r1 \in RDraws, r2 \in RDraws, x1 \in XDraws, x2 \in XDraws :
      StartResponse(u, a, r1, x1) = StartResponse(u, a, r2, x2)

\* C15: the index holds u -> g exactly when g is a game of the registry
\* that is u's and active.
C15_IndexIffActive ==
  \A u \in Users, g \in GameIds : IndexEntry(u, g) <=> OwnActive(u, g)

\* Every balance, every game's status and the index are as before the step.
LedgerAndRegistryKept ==
  /\ \A v \in DOMAIN users : users'[v].balance = users[v].balance
  /\ \A g \in DOMAIN games :
       g \in DOMAIN games' /\ games'[g].status = games[g].status
  /\ activeGames' = activeGames

\* C16 as claimed: a start request answered InsufficientBalance leaves every
\* balance, every game's status and the index as they were.
C16_InsufficientMutatesNothing ==
  [][requestLog' # requestLog =>
     \A u \in Users, a \in ValidAmounts :
       (StartResult(u, a) = "InsufficientBalance" /\ StartStep(u, a))
         => LedgerAndRegistryKept]_vars

\* C16 amended: a start request answered InsufficientBalance leaves every
\* balance, every game's status and the index as they were, unless it found
\* the user's indexed game active and more than 60 s old: then that game has
\* become crashed, its stake is back on the balance and the index entry is
\* gone, and nothing else has changed.
C16_InsufficientKeepsAllButStale ==
  [][requestLog' # requestLog =>
     \A u \in Users, a \in ValidAmounts :
       (StartResult(u, a) = "InsufficientBalance" /\ StartStep(u, a))
         => IF StaleIndexed(u)
            THEN LET g == activeGames[u] IN
                 /\ games' = [games EXCEPT ![g].status = "crashed"]
                 /\ users' = [users EXCEPT ![u].balance =
                                              @ + games[g].betAmount]
                 /\ activeGames' = Del(activeGames, u)
                 /\ credits' = [credits EXCEPT ![g] = @ + 1]
            ELSE LedgerAndRegistryKept /\ games' = games]_vars

\* C16 witness: the user's last game was cleared as stale and refunded by
\* a start request that created no game.
C16_Witness ==
  \E g \in DOMAIN games :
    /\ nextId = g + 1
    /\ games[g].status = "crashed"
    /\ credits[g] = 1
    /\ games[g].userId \notin DOMAIN activeGames

\* C17: a start request answered RateLimited changes nothing: the rate
\* limiter returns the log as it found it, and no step that changes any
\* variable is the step of such a request.
C17_RateLimitedMutatesNothing ==
  /\ [](\A u \in Users, a \in ValidAmounts :
          StartResult(u, a) = "RateLimited" =>
            isRateLimited(requestLog, u, MaxStartsPerMinute, now).log
              = requestLog)
  /\ [][\A u \in Users, a \in ValidAmounts :
          StartResult(u, a) = "RateLimited" =>
            \A r \in RDraws, x \in XDraws : ~StartRound(u, a, r, x)]_vars

\* C17 witness: ten start requests have passed the rate limiter, time has
\* moved on inside the window, and a start request is answered RateLimited.
C17_Witness ==
  \E u \in DOMAIN requestLog, a \in ValidAmounts :
    /\ now + RateWindowMs > requestLog[u].resetAt
    /\ StartResult(u, a) = "RateLimited"

\* C18: a game that is not active is never changed again while it is in
\* the registry; a status changes only from active to completed or crashed;
\* the stake of a game never changes; a game that left the registry does
\* not come back.
C18_EndedGamesImmutable ==
  [][games' # games =>
     /\ \A g \in DOMAIN games \cap DOMAIN games' :
          /\ games[g].status # "active" => games'[g] = games[g]
          /\ games'[g].status # games[g].status =>
               /\ games[g].status = "active"
               /\ games'[g].status \in {"completed", "crashed"}
          /\ games'[g].betAmount = games[g].betAmount
          /\ games'[g].userId = games[g].userId
     /\ \A g \in DOMAIN games' \ DOMAIN games :
          g = nextId /\ games'[g].status = "active"]_vars

\* C18 witness: the registry holds a game completed by a paid cash-out and
\* a game that crashed.
C18_Witness ==
  \E g \in DOMAIN games, h \in DOMAIN games :
    /\ games[g].status = "completed"
    /\ games[g].cashoutMultiplier # Null
    /\ games[h].status = "crashed"

\* The step is a successful start of u with stake a.
StartedWith(u, a) == StartResult(u, a) = "ok" /\ StartStep(u, a)

\* The step is a paid cash-out of u on game g at multiplier m.
PaidWith(u, g, m) == CashOutResult(u, g, m) = "Paid" /\ CashOutStep(u, g, m)

\* C19: no step decreases an account's gamesPlayed, totalWagered or
\* totalWon; gamesPlayed and totalWagered change only in a successful start,
\* by 1 and by the stake; totalWon changes only in a paid cash-out, by the
\* payout; an account is created with all three at 0.
C19_AccumulatorsMonotonic ==
  [][users' # users =>
     /\ \A u \in DOMAIN users :
          /\ u \in DOMAIN users'
          /\ users'[u].gamesPlayed >= users[u].gamesPlayed
          /\ users'[u].totalWagered >= users[u].totalWagered
          /\ users'[u].totalWon >= users[u].totalWon
          /\ (\/ users'[u].gamesPlayed # users[u].gamesPlayed
              \/ users'[u].totalWagered # users[u].totalWagered) =>
               \E a \in ValidAmounts :
                 /\ StartedWith(u, a)
                 /\ users'[u].gamesPlayed = users[u].gamesPlayed + 1
                 /\ users'[u].totalWagered = users[u].totalWagered + a
          /\ users'[u].totalWon # users[u].totalWon =>
               \E g \in DOMAIN games, m \in ValidMultipliers :
                 /\ PaidWith(u, g, m)
                 /\ users'[u].totalWon =
                      users[u].totalWon + Payout(games[g].betAmount, m)
     /\ \A u \in DOMAIN users' \ DOMAIN users :
          /\ users'[u].gamesPlayed = 0
          /\ users'[u].totalWagered = 0
          /\ users'[u].totalWon = 0]_vars

\* C19 witness: an account that staked on two games, had the first one
\* refunded as stale and was paid on the second keeps both stakes in
\* totalWagered and both games in gamesPlayed.
C19_Witness ==
  \E u \in DOMAIN users, g \in DOMAIN games, h \in DOMAIN games :
    /\ games[g].userId = u /\ games[h].userId = u
    /\ credits[g] = 1 /\ settles[g] = <<>>
    /\ settles[h] = <<"Paid">>
    /\ users[u].gamesPlayed = 2
    /\ users[u].totalWagered = games[g].betAmount + games[h].betAmount
    /\ users[u].totalWon > 0

\* Less than 1000 ms have passed since u's last successful start.
JustStarted(u) == u \in DOMAIN users /\ now - users[u].lastGameAt < 1000

\* C20: two games of one user are started at least 1000 ms apart; a start
\* request that comes less than 1000 ms after the user's last successful
\* start is never answered with success, creates no game and leaves the
\* accounts as they are, whether or not the earlier game has ended.
C20_StartsOneSecondApart ==
  /\ [](\A g \in DOMAIN games, h \in DOMAIN games :
          (g # h /\ games[g].userId = games[h].userId
               /\ games[g].startedAt <= games[h].startedAt)
            => games[h].startedAt - games[g].startedAt >= 1000)
  /\ [](\A u \in Users, a \in ValidAmounts :
          JustStarted(u) => StartResult(u, a) # "ok")
  /\ [][requestLog' # requestLog =>
          \A u \in Users, a \in ValidAmounts :
            (JustStarted(u) /\ StartStep(u, a))
              => games' = games /\ nextId' = nextId /\ users' = users]_vars

\* C20 witness: the user's game has ended, the balance covers a stake, and
\* a start request less than 1000 ms after the last one is answered
\* CooldownActive.
C20_Witness ==
  \E u \in DOMAIN users, a \in ValidAmounts :
    /\ JustStarted(u)
    /\ u \notin DOMAIN activeGames
    /\ users[u].balance >= a
    /\ StartResult(u, a) = "CooldownActive"

\* C21: every crash point the generator returns, and so the crash point of
\* every game, is at least 1.00 and below 20.00.
C21_CrashPointBelowTwenty ==
  \A g \in DOMAIN games :
    games[g].crashPoint >= 100 /\ games[g].crashPoint < 2000

\* C22: over its whole life a game brings its owner at most one credit:
\* one cash-out payout, or one refund as stale by a start request, or one
\* refund on expiry by the sweep; a game paid by a cash-out is completed
\* and a game refunded while in the registry is crashed.
C22_AtMostOneCreditPerGame ==
  /\ \A g \in DOMAIN credits : credits[g] <= 1
  /\ \A g \in DOMAIN games :
       credits[g] = 1 =>
         IF settles[g] = <<"Paid">>
         THEN games[g].status = "completed"
         ELSE games[g].status = "crashed" /\ settles[g] = <<>>

\* C22 witness: one game was refunded and has left the registry, another
\* was paid by a cash-out; each was credited once.
C22_Witness ==
  \E g \in DOMAIN credits, h \in DOMAIN games :
    /\ g \notin DOMAIN games
    /\ credits[g] = 1
    /\ settles[g] = <<>>
    /\ credits[h] = 1
    /\ settles[h] = <<"Paid">>

\* C23: a cash-out by the owner on an active game that is answered
\* InvalidMultiplier leaves the game locked and not active, removes the
\* user's index entry and changes no account; from then on every cash-out
\* of the owner on that game with a non-empty multiplier is answered
\* AlreadyEnded, and the game is never credited.
C23_InvalidMultiplierConsumesGame ==
  /\ [](\A g \in DOMAIN games :
          settles[g] = <<"InvalidMultiplier">> =>
            /\ games[g].cashedOut
            /\ games[g].status # "active"
            /\ credits[g] = 0
            /\ \A m \in ValidMultipliers :
                 CashOutResult(games[g].userId, g, m) = "AlreadyEnded")
  /\ [][settles' # settles =>
          \A u \in Users, g \in GameIds, m \in Multipliers :
            (/\ OwnActive(u, g)
             /\ CashOutResult(u, g, m) = "InvalidMultiplier"
             /\ CashOutStep(u, g, m))
              => /\ u \notin DOMAIN activeGames'
                 /\ users' = users
                 /\ credits' = credits
                 /\ games'[g].cashedOut
                 /\ games'[g].status # "active"]_vars

\* C23 witness: a cash-out below 1.00 has locked a game whose stake is
\* neither paid out nor refunded.
C23_Witness ==
  \E g \in DOMAIN games :
    /\ settles[g] = <<"InvalidMultiplier">>
    /\ games[g].userId \notin DOMAIN activeGames
    /\ users[games[g].userId].balance = 0

\* What a crash report of u for g makes of the registry: applied twice it
\* gives what it gives applied once, it changes no game's cashedOut flag,
\* and the game it ends is crashed with cashedOut false.
CrashReportOnRegistry(u, g) ==
  LET once == CrashedGames(games, u, g) IN
  /\ CrashedGames(once, u, g) = once
  /\ DOMAIN once = DOMAIN games
  /\ \A h \in DOMAIN games : once[h].cashedOut = games[h].cashedOut
  /\ OwnActive(u, g) => once[g].status = "crashed" /\ ~once[g].cashedOut

\* C24: a crash report applied a second time changes nothing the first one
\* left; it changes no game's cashedOut flag and the game it ends is crashed
\* with cashedOut false; it changes no account and credits no game (no step
\* that changes an account or a credit is a crash report).
C24_ReportCrashIdempotentNoLedger ==
  /\ [](\A u \in Users :
          /\ Del(Del(activeGames, u), u) = Del(activeGames, u)
          /\ \A g \in GameIds : CrashReportOnRegistry(u, g))
  /\ [][(users' # users \/ credits' # credits) =>
          \A u \in Users, g \in GameIds : ~ReportCrash(u, g)]_vars

\* C24 witness: a crash report has ended a game: it is crashed, not cashed
\* out, never credited, and its stake is still off the owner's balance.
C24_Witness ==
  \E g \in DOMAIN games :
    /\ games[g].status = "crashed"
    /\ ~games[g].cashedOut
    /\ credits[g] = 0
    /\ users[games[g].userId].balance = 0
    /\ users[games[g].userId].totalWagered = games[g].betAmount

====
